---- MODULE Spec2Model ----
(***************************************************************************)
(* A model of roomwatch.py: one RoomWatch check (fetch, extract, summarize, *)
(* load previous state, compare, notify, save) invoked through either       *)
(* entry point, with the state file as the only data kept between checks.   *)
(***************************************************************************)
EXTENDS Integers, Sequences, FiniteSets, TLC

VARIABLES
    state_file,      \* the file at self.state_file: absent, corrupt, or JSON text
    now,             \* the clock read by datetime.now(); one tick per invocation
    pc,              \* position of the current invocation inside run()
    entry,           \* which entry point was invoked: "lambda" or "main"
    vacancy_data,    \* run(): the dict returned by summarize_with_claude
    previous_state,  \* run(): the value returned by load_previous_state
    changed,         \* run(): the value returned by has_changes
    calls,           \* outbound HTTP calls made by the current invocation, in order
    result,          \* what the entry point returned
    raised,          \* the exception that reached the entry point ("" when none)
    file_at_start,   \* history: state_file when the invocation started
    load_status,     \* history: how load_previous_state ended in this invocation
    notify_status,   \* history: how send_notification's POST ended in this invocation
    save_log,        \* history: the last save_state calls (newest last)
    lost             \* history: change keys whose notification failed, still unsent

vars == <<state_file, now, pc, entry, vacancy_data, previous_state, changed,
          calls, result, raised, file_at_start, load_status, notify_status,
          save_log, lost>>

\* ------------------------------------------------------------------ bounds

MaxRuns == 3
MaxRooms == 2

\* ------------------------------------------------------------------ values

None == [none |-> TRUE]
\* A JSON document that is not an object (json.loads gives a list).
NotADict == [list |-> TRUE]

IsDict(v) == "has_vacancies" \in DOMAIN v

\* dict.get(key, default)
Get(d, key, default) == IF key \in DOMAIN d THEN d[key] ELSE default

\* ------------------------------------------------------------------ has_changes

RECURSIVE RoomSet(_)
\* set(r.get('room', '') for r in rooms)
RoomSet(rooms) ==
    IF rooms = <<>> THEN {}
    ELSE {Get(Head(rooms), "room", "")} \cup RoomSet(Tail(rooms))

\* Mutant: the room lists are compared as lists, so a reordering is a change.
has_changes_ComparesRoomLists(current, previous) ==
    IF previous = None THEN TRUE
    ELSE IF current.has_vacancies # previous.has_vacancies THEN TRUE
    ELSE IF current.vacancy_count # previous.vacancy_count THEN TRUE
    ELSE IF Get(current, "rooms", <<>>) # Get(previous, "rooms", <<>>) THEN TRUE
    ELSE FALSE

has_changes(current, previous) ==
    IF previous = None THEN TRUE
    ELSE IF current.has_vacancies # previous.has_vacancies THEN TRUE
    ELSE IF current.vacancy_count # previous.vacancy_count THEN TRUE
    ELSE IF RoomSet(Get(current, "rooms", <<>>)) # RoomSet(Get(previous, "rooms", <<>>))
         THEN TRUE
    ELSE FALSE

\* ------------------------------------------------------------------ state file

Absent == [kind |-> "absent"]
\* A file whose content does not parse as JSON (empty or cut short).
Corrupt == [kind |-> "corrupt"]

KeyOrder == <<"has_vacancies", "vacancy_count", "summary", "rooms", "notes", "last_check">>
RoomKeyOrder == <<"room", "details">>

KeysOf(d, order) == SelectSeq(order, LAMBDA k : k \in DOMAIN d)

\* One JSON object as the sequence of its key/value members, in dict order.
DumpMembers(d, order) ==
    LET ks == KeysOf(d, order) IN [i \in 1..Len(ks) |-> <<ks[i], d[ks[i]]>>]

\* json.dump(state, f, indent=2): the rooms list is a list of objects.
json_dump(state) ==
    LET withRooms ==
            IF "rooms" \in DOMAIN state
            THEN [state EXCEPT !.rooms =
                     [j \in 1..Len(state.rooms) |-> DumpMembers(state.rooms[j], RoomKeyOrder)]]
            ELSE state
    IN  DumpMembers(withRooms, KeyOrder)

LoadMembers(text) ==
    [k \in {text[i][1] : i \in 1..Len(text)} |->
        (CHOOSE i \in 1..Len(text) : text[i][1] = k) ]

LoadObject(text) ==
    LET at == LoadMembers(text) IN [k \in DOMAIN at |-> text[at[k]][2]]

\* json.load(f)
json_load(text) ==
    LET obj == LoadObject(text) IN
    [k \in DOMAIN obj |->
        IF k = "rooms" THEN [j \in 1..Len(obj[k]) |-> LoadObject(obj[k][j])]
        ELSE obj[k]]

\* state['last_check'] = datetime.now().isoformat()
WithLastCheck(state, t) ==
    [k \in DOMAIN state \cup {"last_check"} |-> IF k = "last_check" THEN t ELSE state[k]]

\* The report fields of a stored state: everything except last_check.
Fields(state) == [k \in DOMAIN state \ {"last_check"} |-> state[k]]

\* load_previous_state's return value for a file and a read that works or not.
load_previous_state(file, readOk) ==
    IF file.kind = "absent" THEN None
    ELSE IF ~readOk THEN None
    ELSE IF file.kind = "corrupt" THEN None
    ELSE json_load(file.text)

\* Mutant: the file is opened with mode 'x', so an existing file is never replaced.
save_state_KeepsExisting(file, state, t, io) ==
    IF io = "open_failed" THEN file
    ELSE IF io = "write_failed" THEN Corrupt
    ELSE IF file.kind # "absent" THEN file
    ELSE [kind |-> "json", text |-> json_dump(WithLastCheck(state, t))]

\* Mutant: the file is opened with mode 'a', so a second document follows the first
\* and the file no longer parses.
save_state_Appends(file, state, t, io) ==
    IF io = "open_failed" THEN file
    ELSE IF io = "write_failed" THEN Corrupt
    ELSE IF file.kind # "absent" THEN Corrupt
    ELSE [kind |-> "json", text |-> json_dump(WithLastCheck(state, t))]

\* save_state's effect on the file: open(..., 'w') may fail (file untouched), the
\* write may fail after the open truncated the file, or the whole text is written.
save_state(file, state, t, io) ==
    IF io = "open_failed" THEN file
    ELSE IF io = "write_failed" THEN Corrupt
    ELSE [kind |-> "json", text |-> json_dump(WithLastCheck(state, t))]

SaveOutcomes == {"ok", "open_failed", "write_failed"}

\* ------------------------------------------------------------------ inputs

Room(id, details) == [room |-> id, details |-> details]

ReportA == [has_vacancies |-> FALSE, vacancy_count |-> 0, summary |-> "No rooms",
            rooms |-> <<>>, notes |-> ""]
ReportB == [has_vacancies |-> TRUE, vacancy_count |-> 2, summary |-> "Two rooms",
            rooms |-> <<Room("101", "d1"), Room("102", "d1")>>, notes |-> "May"]
\* ReportB with the rooms reordered and every text changed.
ReportB2 == [has_vacancies |-> TRUE, vacancy_count |-> 2, summary |-> "Rooms 102, 101",
             rooms |-> <<Room("102", "d2"), Room("101", "d2")>>, notes |-> ""]
\* Same has_vacancies and vacancy_count as ReportB, another set of rooms.
ReportC == [has_vacancies |-> TRUE, vacancy_count |-> 2, summary |-> "Two rooms",
            rooms |-> <<Room("101", "d1"), Room("101", "d2")>>, notes |-> "May"]

\* What the LLM can answer: a JSON object, a JSON list, or text that is not JSON.
RawTexts == {"Rooms are AVAILABLE", "Fully booked"}
Responses ==
    {[json |-> TRUE, value |-> v] : v \in {ReportA, ReportB, ReportB2, ReportC, NotADict}}
        \cup {[json |-> FALSE, text |-> t] : t \in RawTexts}

\* "available" in response_text.lower() or "vacancy" in response_text.lower()
MentionsVacancy(text) == text \in {"Rooms are AVAILABLE"}

\* summarize_with_claude's result for an answer of the LLM
summarize_with_claude(resp) ==
    IF resp.json THEN resp.value
    ELSE [has_vacancies |-> MentionsVacancy(resp.text), vacancy_count |-> 0,
          summary |-> resp.text, rooms |-> <<>>,
          notes |-> "Could not parse structured data"]

\* ------------------------------------------------------------------ entry points

ValueError == "Missing required environment variables"
FetchError == "fetch: RequestException"
ExtractError == "extract: FeatureNotFound"
SummarizeError == "summarize: APIError"
AttributeError == "'list' object has no attribute 'get'"
NotifyError == "notify: RequestException"

\* Mutant: the failure branch answers with the success status code.
LambdaResponse_Always200(exc, report) ==
    IF exc = ""
    THEN [statusCode |-> 200, message |-> "RoomWatch executed successfully",
          result |-> report]
    ELSE [statusCode |-> 200, message |-> "RoomWatch execution failed", error |-> exc]

\* lambda_handler's return value; exc = "" when RoomWatch() and run() returned
LambdaResponse(exc, report) ==
    IF exc = ""
    THEN [statusCode |-> 200, message |-> "RoomWatch executed successfully",
          result |-> report]
    ELSE [statusCode |-> 500, message |-> "RoomWatch execution failed", error |-> exc]

\* main's return value
MainExit(exc) == IF exc = "" THEN [exit |-> 0] ELSE [exit |-> 1]

EntryReturn(e, exc, report) ==
    IF e = "lambda" THEN LambdaResponse(exc, report) ELSE MainExit(exc)

\* An exception leaves run() (logged and re-raised) and is caught by the entry point.
Raise(e, exc) ==
    /\ pc' = "idle"
    /\ raised' = exc
    /\ result' = EntryReturn(e, exc, None)

\* ------------------------------------------------------------------ history helpers

Key(report) ==
    <<report.has_vacancies, report.vacancy_count, RoomSet(Get(report, "rooms", <<>>))>>

\* The report fields a load would return from this file (None when it returns None).
LoadedFields(file) ==
    LET s == load_previous_state(file, TRUE) IN IF s = None THEN None ELSE Fields(s)

\* The report is a change with respect to what the file holds.
DiffersFromFile(report, file) ==
    LoadedFields(file) = None \/ Key(report) # Key(LoadedFields(file))

LastTwo(log) == IF Len(log) > 2 THEN Tail(log) ELSE log

\* ------------------------------------------------------------------ actions

Init ==
    /\ state_file = Absent
    /\ now = 0
    /\ pc = "idle"
    /\ entry = "main"
    /\ vacancy_data = None
    /\ previous_state = None
    /\ changed = FALSE
    /\ calls = <<>>
    /\ result = None
    /\ raised = ""
    /\ file_at_start = Absent
    /\ load_status = "none"
    /\ notify_status = "none"
    /\ save_log = <<>>
    /\ lost = [any |-> {}, real |-> {}]

\* An entry point is invoked: RoomWatch() reads and validates the configuration.
Invoke(e) ==
    /\ pc = "idle"
    /\ now < MaxRuns
    /\ now' = now + 1
    /\ entry' = e
    /\ vacancy_data' = None
    /\ previous_state' = None
    /\ changed' = FALSE
    /\ calls' = <<>>
    /\ load_status' = "none"
    /\ notify_status' = "none"
    /\ file_at_start' = state_file
    /\ \E configOk \in BOOLEAN :
          IF configOk
          THEN pc' = "fetch" /\ raised' = "" /\ result' = None
          ELSE Raise(e, ValueError)
    /\ UNCHANGED <<state_file, save_log, lost>>

lambda_handler == Invoke("lambda")

main == Invoke("main")

fetch_webpage ==
    /\ pc = "fetch"
    /\ calls' = Append(calls, "fetch")
    /\ \E ok \in BOOLEAN :
          IF ok
          THEN pc' = "extract" /\ UNCHANGED <<raised, result>>
          ELSE Raise(entry, FetchError)
    /\ UNCHANGED <<state_file, now, entry, vacancy_data, previous_state, changed,
                   file_at_start, load_status, notify_status, save_log, lost>>

extract_content ==
    /\ pc = "extract"
    /\ \E ok \in BOOLEAN :
          IF ok
          THEN pc' = "summarize" /\ UNCHANGED <<raised, result>>
          ELSE Raise(entry, ExtractError)
    /\ UNCHANGED <<state_file, now, entry, vacancy_data, previous_state, changed, calls,
                   file_at_start, load_status, notify_status, save_log, lost>>

Summarize ==
    /\ pc = "summarize"
    /\ calls' = Append(calls, "llm")
    /\ \/ /\ Raise(entry, SummarizeError)
          /\ UNCHANGED vacancy_data
       \/ \E resp \in Responses :
             /\ vacancy_data' = summarize_with_claude(resp)
             /\ pc' = "load"
             /\ UNCHANGED <<raised, result>>
    /\ UNCHANGED <<state_file, now, entry, previous_state, changed,
                   file_at_start, load_status, notify_status, save_log, lost>>

Load ==
    /\ pc = "load"
    /\ \E readOk \in BOOLEAN :
          /\ previous_state' = load_previous_state(state_file, readOk)
          /\ load_status' = IF state_file.kind = "absent" THEN "absent"
                            ELSE IF ~readOk THEN "unreadable"
                            ELSE IF state_file.kind = "corrupt" THEN "corrupt"
                            ELSE "ok"
    /\ pc' = "compare"
    /\ UNCHANGED <<state_file, now, entry, vacancy_data, changed, calls, result, raised,
                   file_at_start, notify_status, save_log, lost>>

\* Mutant: the state is saved as soon as a report is compared, before notifying.
Compare_SavesBeforeNotify ==
    /\ pc = "compare"
    /\ IF previous_state # None /\ ~IsDict(vacancy_data)
       THEN Raise(entry, AttributeError) /\ UNCHANGED <<changed, state_file>>
       ELSE /\ changed' = has_changes(vacancy_data, previous_state)
            /\ pc' = IF changed' THEN "notify" ELSE "save"
            /\ state_file' = IF IsDict(vacancy_data)
                             THEN save_state(state_file, vacancy_data, now, "ok")
                             ELSE state_file
            /\ UNCHANGED <<raised, result>>
    /\ UNCHANGED <<now, entry, vacancy_data, previous_state, calls,
                   file_at_start, load_status, notify_status, save_log, lost>>

\* Mutant: save_state sits inside the "changes" branch, so an unchanged report
\* returns without saving.
Compare_SkipsSaveWhenUnchanged ==
    /\ pc = "compare"
    /\ IF previous_state # None /\ ~IsDict(vacancy_data)
       THEN Raise(entry, AttributeError) /\ UNCHANGED changed
       ELSE /\ changed' = has_changes(vacancy_data, previous_state)
            /\ IF changed'
               THEN pc' = "notify" /\ UNCHANGED <<raised, result>>
               ELSE /\ pc' = "idle"
                    /\ raised' = ""
                    /\ result' = EntryReturn(entry, "", vacancy_data)
    /\ UNCHANGED <<state_file, now, entry, vacancy_data, previous_state, calls,
                   file_at_start, load_status, notify_status, save_log, lost>>

\* if self.has_changes(vacancy_data, previous_state): ... else: ...
Compare ==
    /\ pc = "compare"
    /\ IF previous_state # None /\ ~IsDict(vacancy_data)
       THEN Raise(entry, AttributeError) /\ UNCHANGED changed
       ELSE /\ changed' = has_changes(vacancy_data, previous_state)
            /\ pc' = IF changed' THEN "notify" ELSE "save"
            /\ UNCHANGED <<raised, result>>
    /\ UNCHANGED <<state_file, now, entry, vacancy_data, previous_state, calls,
                   file_at_start, load_status, notify_status, save_log, lost>>

\* Mutant: a failed POST is logged and not re-raised.
send_notification_SwallowsFailure ==
    /\ pc = "notify"
    /\ IF ~IsDict(vacancy_data)
       THEN Raise(entry, AttributeError) /\ UNCHANGED <<calls, lost, notify_status>>
       ELSE /\ calls' = Append(calls, "notify")
            /\ pc' = "save"
            /\ UNCHANGED <<raised, result>>
            /\ \E ok \in BOOLEAN :
                  IF ok
                  THEN /\ notify_status' = "sent"
                       /\ lost' = [any |-> lost.any \ {Key(vacancy_data)},
                                   real |-> lost.real \ {Key(vacancy_data)}]
                  ELSE /\ notify_status' = "failed"
                       /\ lost' = [any |-> lost.any \cup {Key(vacancy_data)},
                                   real |-> IF DiffersFromFile(vacancy_data, state_file)
                                            THEN lost.real \cup {Key(vacancy_data)}
                                            ELSE lost.real]
    /\ UNCHANGED <<state_file, now, entry, vacancy_data, previous_state, changed,
                   file_at_start, load_status, save_log>>

\* Mutant: the state is saved in a cleanup block, also when the POST failed.
send_notification_SavesOnFailure ==
    /\ pc = "notify"
    /\ IF ~IsDict(vacancy_data)
       THEN Raise(entry, AttributeError) /\ UNCHANGED <<calls, lost, notify_status, state_file>>
       ELSE /\ calls' = Append(calls, "notify")
            /\ \E ok \in BOOLEAN :
                  IF ok
                  THEN /\ pc' = "save"
                       /\ notify_status' = "sent"
                       /\ lost' = [any |-> lost.any \ {Key(vacancy_data)},
                                   real |-> lost.real \ {Key(vacancy_data)}]
                       /\ UNCHANGED <<raised, result, state_file>>
                  ELSE /\ Raise(entry, NotifyError)
                       /\ notify_status' = "failed"
                       /\ state_file' = save_state(state_file, vacancy_data, now, "ok")
                       /\ lost' = [any |-> lost.any \cup {Key(vacancy_data)},
                                   real |-> IF DiffersFromFile(vacancy_data, state_file)
                                            THEN lost.real \cup {Key(vacancy_data)}
                                            ELSE lost.real]
    /\ UNCHANGED <<now, entry, vacancy_data, previous_state, changed,
                   file_at_start, load_status, save_log>>

\* Mutant: a failed POST is tried a second time.
send_notification_Retries ==
    /\ pc = "notify"
    /\ IF ~IsDict(vacancy_data)
       THEN Raise(entry, AttributeError) /\ UNCHANGED <<calls, lost, notify_status>>
       ELSE \E ok \in BOOLEAN, again \in BOOLEAN :
               /\ calls' = IF ok THEN Append(calls, "notify")
                           ELSE calls \o <<"notify", "notify">>
               /\ IF ok \/ again
                  THEN /\ pc' = "save"
                       /\ notify_status' = "sent"
                       /\ lost' = [any |-> lost.any \ {Key(vacancy_data)},
                                   real |-> lost.real \ {Key(vacancy_data)}]
                       /\ UNCHANGED <<raised, result>>
                  ELSE /\ Raise(entry, NotifyError)
                       /\ notify_status' = "failed"
                       /\ lost' = [any |-> lost.any \cup {Key(vacancy_data)},
                                   real |-> IF DiffersFromFile(vacancy_data, state_file)
                                            THEN lost.real \cup {Key(vacancy_data)}
                                            ELSE lost.real]
    /\ UNCHANGED <<state_file, now, entry, vacancy_data, previous_state, changed,
                   file_at_start, load_status, save_log>>

send_notification ==
    /\ pc = "notify"
    /\ IF ~IsDict(vacancy_data)
       THEN Raise(entry, AttributeError) /\ UNCHANGED <<calls, lost, notify_status>>
       ELSE /\ calls' = Append(calls, "notify")
            /\ \E ok \in BOOLEAN :
                  IF ok
                  THEN /\ pc' = "save"
                       /\ notify_status' = "sent"
                       /\ lost' = [any |-> lost.any \ {Key(vacancy_data)},
                                   real |-> lost.real \ {Key(vacancy_data)}]
                       /\ UNCHANGED <<raised, result>>
                  ELSE /\ Raise(entry, NotifyError)
                       /\ notify_status' = "failed"
                       /\ lost' = [any |-> lost.any \cup {Key(vacancy_data)},
                                   real |-> IF DiffersFromFile(vacancy_data, state_file)
                                            THEN lost.real \cup {Key(vacancy_data)}
                                            ELSE lost.real]
    /\ UNCHANGED <<state_file, now, entry, vacancy_data, previous_state, changed,
                   file_at_start, load_status, save_log>>

\* Mutant: save_state lets an I/O failure escape.
Save_RaisesOnFailure ==
    /\ pc = "save"
    /\ \E io \in SaveOutcomes :
          /\ state_file' = save_state(state_file, vacancy_data, now, io)
          /\ save_log' = LastTwo(Append(save_log,
                            [fields |-> vacancy_data, io |-> io, t |-> now,
                             after |-> LoadedFields(state_file')]))
          /\ IF io = "ok"
             THEN /\ pc' = "idle"
                  /\ raised' = ""
                  /\ result' = EntryReturn(entry, "", WithLastCheck(vacancy_data, now))
             ELSE Raise(entry, "save: OSError")
    /\ vacancy_data' = WithLastCheck(vacancy_data, now)
    /\ UNCHANGED <<now, entry, previous_state, changed, calls,
                   file_at_start, load_status, notify_status, lost>>

\* self.save_state(vacancy_data); return vacancy_data
Save ==
    /\ pc = "save"
    /\ \E io \in SaveOutcomes :
          /\ state_file' = save_state(state_file, vacancy_data, now, io)
          /\ save_log' = LastTwo(Append(save_log,
                            [fields |-> vacancy_data, io |-> io, t |-> now,
                             after |-> LoadedFields(state_file')]))
    /\ vacancy_data' = WithLastCheck(vacancy_data, now)
    /\ pc' = "idle"
    /\ raised' = ""
    /\ result' = EntryReturn(entry, "", vacancy_data')
    /\ UNCHANGED <<now, entry, previous_state, changed, calls,
                   file_at_start, load_status, notify_status, lost>>

Next ==
    \/ lambda_handler
    \/ main
    \/ fetch_webpage
    \/ extract_content
    \/ Summarize
    \/ Load
    \/ Compare
    \/ send_notification
    \/ Save

Spec == Init /\ [][Next]_vars

\* ------------------------------------------------------------------ has_changes alone

\* has_changes applied to a pair of reports drawn from bounded sets.

RoomEntries == {Room("101", "d1"), Room("102", "d1"), Room("101", "d2"), [details |-> "d1"]}

RECURSIVE SeqsUpTo(_, _)
SeqsUpTo(S, n) ==
    IF n = 0 THEN {<<>>}
    ELSE SeqsUpTo(S, n - 1) \cup {Append(q, x) : q \in SeqsUpTo(S, n - 1), x \in S}

CurrentReports ==
    [has_vacancies : BOOLEAN, vacancy_count : 0..1, summary : {"s1"},
     rooms : SeqsUpTo(RoomEntries, MaxRooms), notes : {"n1"}]
        \cup [has_vacancies : BOOLEAN, vacancy_count : 0..1, summary : {"s1"}, notes : {"n1"}]

PreviousStates ==
    {None}
        \cup [has_vacancies : BOOLEAN, vacancy_count : 0..1, summary : {"s1", "s2"},
              rooms : SeqsUpTo(RoomEntries, MaxRooms), notes : {"n2"}, last_check : {1}]
        \cup [has_vacancies : BOOLEAN, vacancy_count : 0..1, summary : {"s1", "s2"},
              notes : {"n2"}, last_check : {1}]

InitHasChanges ==
    /\ pc = "has_changes"
    /\ vacancy_data \in CurrentReports
    /\ previous_state \in PreviousStates
    /\ changed = FALSE
    /\ state_file = Absent
    /\ now = 0
    /\ entry = "main"
    /\ calls = <<>>
    /\ result = None
    /\ raised = ""
    /\ file_at_start = Absent
    /\ load_status = "none"
    /\ notify_status = "none"
    /\ save_log = <<>>
    /\ lost = [any |-> {}, real |-> {}]

CallHasChanges ==
    /\ pc = "has_changes"
    /\ changed' = has_changes(vacancy_data, previous_state)
    /\ pc' = "has_changes_done"
    /\ UNCHANGED <<state_file, now, entry, vacancy_data, previous_state, calls, result,
                   raised, file_at_start, load_status, notify_status, save_log, lost>>

SpecHasChanges == InitHasChanges /\ [][CallHasChanges]_vars

\* ------------------------------------------------------------------ claims

Range(q) == {q[i] : i \in 1..Len(q)}

\* The distinct room identifiers of a report (an entry without one counts as '').
RoomIdentifiers(report) ==
    LET rooms == Get(report, "rooms", <<>>) IN
    {Get(rooms[i], "room", "") : i \in 1..Len(rooms)}

\* save_state was called in the current invocation.
SavedThisRun == save_log # <<>> /\ save_log[Len(save_log)].t = now /\ now > 0

LastSave == save_log[Len(save_log)]

\* An invocation has ended (the entry point has returned).
Ended == pc = "idle" /\ now > 0

\* C1: a run that raises before reaching save_state leaves the state file exactly
\* as it was when the run started.
C1_FailedRunKeepsStateFile ==
    (Ended /\ raised # "") => state_file = file_at_start

C1_Witness ==
    /\ Ended
    /\ raised = NotifyError
    /\ file_at_start.kind = "json"
    /\ previous_state # None

\* C2 as stated: the state file always holds the report fields of the most recent
\* run that returned.
C2_Original_FileHoldsLastReturned ==
    save_log # <<>> => LoadedFields(state_file) = LastSave.fields

\* C2 amended: when the save_state write of the most recent returned run succeeded,
\* the state file holds that report's fields, and a load that reads the file in the
\* next run returns them.
C2_FileHoldsLastWrittenReport ==
    (save_log # <<>> /\ LastSave.io = "ok") =>
        /\ LoadedFields(state_file) = LastSave.fields
        /\ (load_status = "ok" /\ ~SavedThisRun) => Fields(previous_state) = LastSave.fields

C2_Witness ==
    /\ pc = "compare"
    /\ load_status = "ok"
    /\ LastSave.io = "ok"
    /\ LastSave.fields = ReportB
    /\ Fields(previous_state) = ReportB

\* C3: has_changes returns true exactly when previous is absent, or has_vacancies
\* differs, or vacancy_count differs, or the sets of room identifiers differ.
C3_HasChangesIff ==
    pc = "has_changes_done" =>
        (changed <=>
            IF previous_state = None THEN TRUE
            ELSE \/ vacancy_data.has_vacancies # previous_state.has_vacancies
                 \/ vacancy_data.vacancy_count # previous_state.vacancy_count
                 \/ RoomIdentifiers(vacancy_data) # RoomIdentifiers(previous_state))

C3_Witness ==
    /\ pc = "has_changes_done"
    /\ ~changed
    /\ previous_state # None
    /\ Len(Get(vacancy_data, "rooms", <<>>)) = 2
    /\ Get(vacancy_data, "rooms", <<>>) # Get(previous_state, "rooms", <<>>)
    /\ vacancy_data.summary # previous_state.summary

\* C4: when send_notification's POST fails, the failure reaches the entry point and
\* save_state is not called in that run.
C4_NotifyFailureAbortsBeforeSave ==
    notify_status = "failed" =>
        /\ pc = "idle"
        /\ raised = NotifyError
        /\ ~SavedThisRun
        /\ state_file = file_at_start

C4_Witness ==
    /\ notify_status = "failed"
    /\ calls = <<"fetch", "llm", "notify">>
    /\ file_at_start.kind = "json"

\* C5: a state file that is absent, unreadable or corrupt loads as "no previous
\* state" and the run goes on as a first run (has_changes true, notification
\* attempted, never aborted by the load); a save_state that fails raises nothing
\* and the run returns its report as a success.
C5_StateStoreFailuresContained ==
    /\ load_status \in {"absent", "unreadable", "corrupt"} =>
          /\ previous_state = None
          /\ pc # "compare" => (changed /\ (raised # "" => notify_status # "none"
                                                          \/ ~IsDict(vacancy_data)))
    /\ (SavedThisRun /\ LastSave.io # "ok") =>
          /\ pc = "idle"
          /\ raised = ""
          /\ IF entry = "lambda"
             THEN result.statusCode = 200 /\ Fields(result.result) = LastSave.fields
             ELSE result.exit = 0

C5_Witness ==
    /\ Ended
    /\ load_status = "corrupt"
    /\ SavedThisRun
    /\ LastSave.io = "write_failed"
    /\ entry = "lambda"
    /\ result.statusCode = 200

\* C6 as stated: a run whose report agrees with the saved state on has_vacancies,
\* vacancy_count and room identifiers makes no notification call and rewrites the
\* state file with a new last_check.
C6_Original_UnchangedReport ==
    (/\ Ended
     /\ IsDict(vacancy_data)
     /\ LoadedFields(file_at_start) # None
     /\ Key(LoadedFields(file_at_start)) = Key(vacancy_data)) =>
        /\ "notify" \notin Range(calls)
        /\ state_file.kind = "json"
        /\ json_load(state_file.text).last_check = now

\* C6 amended: a run whose load_previous_state returned a state agreeing with the
\* report makes no notification call and still calls save_state; when that write
\* succeeds the file holds the report with this run's last_check.
C6_UnchangedLoadedReport ==
    (/\ Ended
     /\ IsDict(vacancy_data)
     /\ previous_state # None
     /\ Key(previous_state) = Key(vacancy_data)) =>
        /\ "notify" \notin Range(calls)
        /\ SavedThisRun
        /\ LastSave.io = "ok" =>
              /\ state_file.kind = "json"
              /\ json_load(state_file.text).last_check = now
              /\ Fields(json_load(state_file.text)) = Fields(vacancy_data)

C6_Witness ==
    /\ Ended
    /\ Fields(vacancy_data) = ReportB2
    /\ previous_state # None
    /\ Fields(previous_state) = ReportB
    /\ previous_state.last_check < now
    /\ state_file.kind = "json"
    /\ json_load(state_file.text).last_check = now

\* C7 as stated: every run that returns has made exactly one fetch, one LLM call
\* and one notification call, in that order.
C7_Original_ExactlyOneCallEach ==
    (Ended /\ raised = "") => calls = <<"fetch", "llm", "notify">>

\* C7 amended: the calls of a run are a prefix of fetch, LLM, notification (at most
\* one each, in that order); the notification call is made only when has_changes
\* returned true; a run that returns made one fetch, one LLM call, and one
\* notification call exactly when has_changes returned true.
C7_AtMostOneCallEachInOrder ==
    /\ calls \in {<<>>, <<"fetch">>, <<"fetch", "llm">>, <<"fetch", "llm", "notify">>}
    /\ "notify" \in Range(calls) => changed
    /\ (Ended /\ raised = "") =>
          calls = IF changed THEN <<"fetch", "llm", "notify">> ELSE <<"fetch", "llm">>

C7_Witness ==
    /\ Ended
    /\ raised = ""
    /\ ~changed
    /\ calls = <<"fetch", "llm">>

C9_Original_SaveTwice ==
    (Len(save_log) = 2 /\ save_log[1].fields = save_log[2].fields) =>
        /\ save_log[2].after = save_log[1].after
        /\ save_log[2].after = save_log[2].fields

\* C9 amended: the same, for two consecutive save_state calls whose writes succeed.
C9_SaveTwiceWritten ==
    (/\ Len(save_log) = 2
     /\ save_log[1].fields = save_log[2].fields
     /\ save_log[1].io = "ok"
     /\ save_log[2].io = "ok") =>
        /\ save_log[2].after = save_log[1].after
        /\ save_log[2].after = save_log[2].fields
        /\ LoadedFields(state_file) = save_log[2].fields

C9_Witness ==
    /\ Len(save_log) = 2
    /\ save_log[1].fields = ReportB
    /\ save_log[2].fields = ReportB
    /\ save_log[1].io = "ok"
    /\ save_log[2].io = "ok"
    /\ save_log[1].t < save_log[2].t

\* C10 as stated: once a run detected a change and its notification failed, every
\* later run with a report of the same key evaluates has_changes to true, until a
\* notification for that key succeeds.
C10_Original_FailedNotificationRetried ==
    (/\ pc \in {"notify", "save"}
     /\ notify_status = "none"
     /\ IsDict(vacancy_data)
     /\ Key(vacancy_data) \in lost.any) =>
        changed /\ pc = "notify"

\* C10 amended: the same, when the report whose notification failed differed from
\* what the state file held (or the file was absent or corrupt).
C10_RealChangeRetried ==
    (/\ pc \in {"notify", "save"}
     /\ notify_status = "none"
     /\ IsDict(vacancy_data)
     /\ Key(vacancy_data) \in lost.real) =>
        changed /\ pc = "notify"

C10_Witness ==
    /\ pc = "notify"
    /\ IsDict(vacancy_data)
    /\ Key(vacancy_data) \in lost.real
    /\ previous_state # None

====
